---- MODULE Spec2Model ----
(***************************************************************************)
(* Concepta front end (src/frontend/app.js): the ConceptaApp state object, *)
(* the flashcard deck handlers, the localStorage persistence of the deck   *)
(* and the four generation handlers with their input fields, output        *)
(* regions and in-flight requests, the page load (loadSettings, setupTheme, *)
(* initializeApp with its two connectivity checks) and the settings and    *)
(* theme handlers with their two localStorage keys.                        *)
(***************************************************************************)
EXTENDS Integers, Sequences, FiniteSets, Bags, TLC

\* ------------------------------------------------------------------------
\* Bounds of the model
\* ------------------------------------------------------------------------

\* Longest deck a backend response or the storage key holds.
MaxDeck == 3

\* Requests that may be in flight together.
MaxInFlight == 1

\* Consecutive identical handler calls that are counted.
MaxRun == MaxDeck + 1

\* Requests in flight at once where requests race each other.
MaxRacing == 2

\* Notifications on the page at once, and timers pending on one of them.
MaxNotifications == 2
MaxTimers == 2

\* ------------------------------------------------------------------------
\* Text of an input field.  A text is kept run-length encoded: a sequence of
\* runs [ws, n], n >= 1 characters that are all whitespace (ws) or all
\* non-whitespace, adjacent runs differing in ws.
\* ------------------------------------------------------------------------

Run(ws, n) == [ws |-> ws, n |-> n]

RECURSIVE TextLen(_)
TextLen(t) == IF t = <<>> THEN 0 ELSE Head(t).n + TextLen(Tail(t))

Front(t) == SubSeq(t, 1, Len(t) - 1)

\* String.prototype.trim: drops leading and trailing whitespace.
TrimLeft(t) == IF t # <<>> /\ Head(t).ws THEN Tail(t) ELSE t
TrimRight(t) == IF t # <<>> /\ t[Len(t)].ws THEN Front(t) ELSE t
Trim(t) == TrimRight(TrimLeft(t))

\* String.prototype.substring(0, max): the first max characters.
RECURSIVE Substring0(_, _)
Substring0(t, max) ==
    IF t = <<>> \/ max <= 0 THEN <<>>
    ELSE IF Head(t).n >= max THEN <<Run(Head(t).ws, max)>>
    ELSE <<Head(t)>> \o Substring0(Tail(t), max - Head(t).n)

\* ------------------------------------------------------------------------
\* JSON values and their text.  A deck value is [kind, items]: kind "list"
\* with a sequence of items, or kind "null".  An item is a card
\* [question, answer] or the JSON null [isNull].  A JSON text is a sequence
\* of tokens.
\* ------------------------------------------------------------------------

QuestionText == <<"q1", "q2", "q3", "q4">>
AnswerText == <<"a1", "a2", "a3", "a4">>

Card(i) == [question |-> QuestionText[i], answer |-> AnswerText[i]]
NullItem == [isNull |-> TRUE]

List(items) == [kind |-> "list", items |-> items]
NullValue == [kind |-> "null", items |-> <<>>]
EmptyDeck == List(<<>>)

IsList(v) == v.kind = "list"
IsCard(x) == DOMAIN x = {"question", "answer"}

\* JSON.stringify of one item of a list.
StringifyItemSwapFields(x) ==
    IF IsCard(x)
    THEN <<"{", "question", x.answer, "answer", x.question, "}">>
    ELSE <<"null">>

StringifyItem(x) ==
    IF IsCard(x)
    THEN <<"{", "question", x.question, "answer", x.answer, "}">>
    ELSE <<"null">>

RECURSIVE StringifyItems(_)
StringifyItems(items) ==
    IF items = <<>> THEN <<>>
    ELSE StringifyItem(Head(items)) \o StringifyItems(Tail(items))

\* JSON.stringify(this.state.flashcards)
JSONstringify(v) ==
    IF IsList(v) THEN <<"[">> \o StringifyItems(v.items) \o <<"]">>
    ELSE <<"null">>

ParseError == [ok |-> FALSE, value |-> NullValue]
Parsed(v) == [ok |-> TRUE, value |-> v]

\* The items of a list text up to its closing bracket; ok is FALSE when the
\* text is no list of cards and nulls.
RECURSIVE ParseItems(_, _)
ParseItems(toks, acc) ==
    IF toks = <<>> THEN ParseError
    ELSE IF Head(toks) = "]"
         THEN IF Len(toks) = 1 THEN Parsed(List(acc)) ELSE ParseError
    ELSE IF Head(toks) = "null"
         THEN ParseItems(Tail(toks), Append(acc, NullItem))
    ELSE IF /\ Len(toks) >= 6
            /\ toks[1] = "{" /\ toks[2] = "question"
            /\ toks[4] = "answer" /\ toks[6] = "}"
         THEN ParseItems(SubSeq(toks, 7, Len(toks)),
                         Append(acc, [question |-> toks[3], answer |-> toks[5]]))
    ELSE ParseError

\* JSON.parse(saved): a value, or a SyntaxError (ok = FALSE).
JSONparse(toks) ==
    IF toks = <<"null">> THEN Parsed(NullValue)
    ELSE IF toks # <<>> /\ Head(toks) = "[" THEN ParseItems(Tail(toks), <<>>)
    ELSE ParseError

\* ------------------------------------------------------------------------
\* Settings values and the JSON text of the settings key
\* ------------------------------------------------------------------------

\* A JavaScript value of a settings field: a string (its pieces), a number
\* or undefined.
Str(pieces) == [kind |-> "string", v |-> pieces]
Num(digits) == [kind |-> "number", v |-> <<digits>>]
Undefined == [kind |-> "undefined", v |-> <<>>]

Dark == Str(<<"dark">>)
Light == Str(<<"light">>)
Phi3Mini == Str(<<"phi3", ":mini">>)
Llama3 == Str(<<"llama3", ":8b">>)
LocalOllama == Str(<<"http://localhost:11434">>)
RemoteOllama == Str(<<"http://ollama.lan:11434">>)
LocalBackend == Str(<<"http://localhost:8000">>)

\* x || d
Truthy(x) == x.kind = "number" \/ (x.kind = "string" /\ x.v # <<>>)
OrDefault(x, d) == IF Truthy(x) THEN x ELSE d

\* x.startsWith('phi3'): a TypeError when x is no string.
StartsWithThrows(x) == x.kind # "string"
StartsWithPhi3(x) == x.kind = "string" /\ x.v # <<>> /\ x.v[1] = "phi3"

\* String(x), what localStorage.setItem stores for x.
StringOf(x) == IF x.kind = "undefined" THEN <<"undefined">> ELSE x.v

SettingKeys == {"theme", "model", "apiUrl"}

Punct(c) == [kind |-> c, v |-> <<>>]
KeyTok(k) == [kind |-> "key", v |-> <<k>>]
NullTok == Punct("null")

\* JSON.stringify of {theme, model, apiUrl}: undefined members are left out.
Member(k, x) == IF x.kind = "undefined" THEN <<>> ELSE <<KeyTok(k), x>>

StringifySettings(settings) ==
    <<Punct("{")>> \o Member("theme", settings.theme)
                   \o Member("model", settings.model)
                   \o Member("apiUrl", settings.apiUrl) \o <<Punct("}")>>

NoFields == [k \in SettingKeys |-> Undefined]
SettingsError == [ok |-> FALSE, null |-> FALSE, obj |-> NoFields]
SettingsNull == [ok |-> TRUE, null |-> TRUE, obj |-> NoFields]
SettingsObject(o) == [ok |-> TRUE, null |-> FALSE, obj |-> o]

\* The members of an object up to its closing brace; a later member of the
\* same name replaces an earlier one.
RECURSIVE ParseMembers(_, _)
ParseMembers(toks, acc) ==
    IF toks = <<Punct("}")>> THEN SettingsObject(acc)
    ELSE IF Len(toks) >= 3 /\ toks[1].kind = "key"
                           /\ toks[2].kind \in {"string", "number"}
    THEN ParseMembers(SubSeq(toks, 3, Len(toks)),
                      IF toks[1].v[1] \in SettingKeys
                      THEN [acc EXCEPT ![toks[1].v[1]] = toks[2]]
                      ELSE acc)
    ELSE SettingsError

\* JSON.parse of the settings text, as far as the three fields are read
\* from it: null, a scalar (no fields), an object, or a SyntaxError.
ParseSettings(toks) ==
    IF toks = <<NullTok>> THEN SettingsNull
    ELSE IF Len(toks) = 1 /\ toks[1].kind \in {"string", "number"}
    THEN SettingsObject(NoFields)
    ELSE IF toks # <<>> /\ toks[1] = Punct("{")
    THEN ParseMembers(Tail(toks), NoFields)
    ELSE SettingsError

\* ------------------------------------------------------------------------
\* State
\* ------------------------------------------------------------------------

VARIABLES
    flashcards,             \* this.state.flashcards
    currentFlashcardIndex,  \* this.state.currentFlashcardIndex
    isFlashcardFlipped,     \* this.state.isFlashcardFlipped
    storedFlashcards,       \* localStorage key 'concepta_flashcards'
    input,                  \* value of the four input fields
    output,                 \* panel shown in the three output regions
    inflight,               \* generation requests awaiting fetch or json
    state,                  \* this.state: currentTab, theme, model, apiUrl,
                            \* backendUrl, isPhi3, connectionStatus
    elements,               \* DOM: modelSelect and apiUrl values, whether the
                            \* settings modal and the loading screen show
    storedSettings,         \* localStorage key 'concepta_settings'
    storedTheme,            \* localStorage key 'concepta_theme'
    startup,                \* position of init() and its two check results
    checks,                 \* checkOllama requests of saveSettings in flight
    trace,                  \* what the page session has done so far
    notifications,          \* nodes showNotification created, their timers
    lastOp,                 \* the handler segment that ran last
    afterSave,              \* it ran right after a saveFlashcards call
    lastNotes,              \* kinds of the notifications it created
    lastThrew,              \* whether it ended by an uncaught exception
    lastStale,              \* whether it showed the response of a request
                            \* after the response of a later request
    runLen,                 \* how many times in a row it has run
    runStart                \* cursor and flipped flag before that run

vars == <<flashcards, currentFlashcardIndex, isFlashcardFlipped,
          storedFlashcards, input, output, inflight,
          state, elements, storedSettings, storedTheme, startup, checks, trace,
          notifications,
          lastOp, afterSave, lastNotes, lastThrew, lastStale, runLen, runStart>>

deckVars == <<flashcards, currentFlashcardIndex, isFlashcardFlipped>>

\* What the deck and generation handlers never touch.
sessVars == <<state, elements, storedSettings, storedTheme, startup, checks, trace,
             notifications>>

Fields == {"topicInput", "notesInput", "quizInput", "flashcardsInput"}
Regions == {"explainOutput", "summaryOutput", "quizOutput"}

TopicLimit == 500
NotesLimit == 2000
QuizLimit == 1000
FlashcardsLimit == 800

Limit(field) ==
    CASE field = "topicInput" -> TopicLimit
      [] field = "notesInput" -> NotesLimit
      [] field = "quizInput" -> QuizLimit
      [] field = "flashcardsInput" -> FlashcardsLimit

Absent == [has |-> FALSE, text |-> <<>>]
Stored(text) == [has |-> TRUE, text |-> text]

Op(name, arg, phase) == [op |-> name, arg |-> arg, phase |-> phase]

\* The record of a handler segment: what ran, the notifications it created,
\* whether it threw, and the length and starting point of the run of
\* identical segments it belongs to.
\* Runs are counted for the next-card and the flip handlers.
Counted(o) == o \in {Op("navigateFlashcard", 1, "call"), Op("flipFlashcard", 0, "call")}

Segment(o, notes, threw, stale) ==
    /\ lastOp' = o
    /\ afterSave' = (lastOp.op = "saveFlashcards")
    /\ lastNotes' = notes
    /\ lastThrew' = threw
    /\ lastStale' = stale
    /\ runLen' = IF Counted(o) /\ o = lastOp
                 THEN (IF runLen < MaxRun THEN runLen + 1 ELSE MaxRun)
                 ELSE 1
    /\ runStart' = IF Counted(o) /\ o = lastOp THEN runStart
                   ELSE IF Counted(o)
                   THEN [index |-> currentFlashcardIndex,
                         flipped |-> isFlashcardFlipped]
                   ELSE [index |-> 0, flipped |-> FALSE]

Ran(o, notes, threw) == Segment(o, notes, threw, FALSE)

\* ------------------------------------------------------------------------
\* Flashcard deck
\* ------------------------------------------------------------------------

\* updateFlashcardDisplay ends by a TypeError when the deck has no length
\* (null) or the card under the cursor has no fields to read.
DisplayThrows(fc, index) ==
    \/ ~IsList(fc)
    \/ /\ Len(fc.items) > 0
       /\ \/ index + 1 > Len(fc.items)
          \/ ~IsCard(fc.items[index + 1])

\* The deck, cursor and flag assignments shared by every deck replacement.
ReplaceDeckKeepFlipped(v) ==
    /\ flashcards' = v
    /\ currentFlashcardIndex' = 0
    /\ UNCHANGED isFlashcardFlipped

\* A replacement that leaves the cursor where it is.
ReplaceDeckKeepCursor(v) ==
    /\ flashcards' = v
    /\ UNCHANGED currentFlashcardIndex
    /\ isFlashcardFlipped' = FALSE

ReplaceDeck(v) ==
    /\ flashcards' = v
    /\ currentFlashcardIndex' = 0
    /\ isFlashcardFlipped' = FALSE

NavIndexNoWrap(index, direction, len) ==
    LET n == index + direction
    IN IF n < 0 THEN len - 1 ELSE n

NavIndexStay(index, direction, len) ==
    LET n == index + direction
    IN IF n < 0 THEN 0 ELSE IF n >= len THEN len - 1 ELSE n

\* A cursor that goes to the first card from either end.
NavIndexFirst(index, direction, len) ==
    LET n == index + direction
    IN IF n < 0 \/ n >= len THEN 0 ELSE n

\* lines 732-734: the new cursor
NavIndex(index, direction, len) ==
    LET n1 == index + direction
        n2 == IF n1 < 0 THEN len - 1 ELSE n1
    IN IF n2 >= len THEN 0 ELSE n2

\* navigateFlashcard(direction), recorded as segment o.
Navigated(o, direction) ==
    IF ~IsList(flashcards)
    THEN /\ UNCHANGED deckVars
         /\ Ran(o, <<>>, TRUE)
    ELSE IF Len(flashcards.items) = 0
    THEN /\ UNCHANGED deckVars
         /\ Ran(o, <<>>, FALSE)
    ELSE /\ currentFlashcardIndex' =
                NavIndex(currentFlashcardIndex, direction, Len(flashcards.items))
         /\ isFlashcardFlipped' = FALSE
         /\ UNCHANGED flashcards
         /\ Ran(o, <<>>, DisplayThrows(flashcards, currentFlashcardIndex'))

NavigateFlashcard(direction) ==
    /\ UNCHANGED <<storedFlashcards, input, output, inflight, sessVars>>
    /\ Navigated(Op("navigateFlashcard", direction, "call"), direction)

FlipFlashcardSet ==
    /\ UNCHANGED <<flashcards, currentFlashcardIndex, storedFlashcards,
                   input, output, inflight, sessVars>>
    /\ isFlashcardFlipped' = TRUE
    /\ Ran(Op("flipFlashcard", 0, "call"), <<>>,
           DisplayThrows(flashcards, currentFlashcardIndex))

\* flipFlashcard(), recorded as segment o.
Flipped(o) ==
    /\ UNCHANGED <<flashcards, currentFlashcardIndex>>
    /\ isFlashcardFlipped' = ~isFlashcardFlipped
    /\ Ran(o, <<>>, DisplayThrows(flashcards, currentFlashcardIndex))

FlipFlashcard ==
    /\ UNCHANGED <<storedFlashcards, input, output, inflight, sessVars>>
    /\ Flipped(Op("flipFlashcard", 0, "call"))

Swap(s, a, b) == [s EXCEPT ![a] = s[b], ![b] = s[a]]

\* lines 749-752: for i = length-1 down to 1, swap items i and j = js[i],
\* 0 <= j <= i (positions are 0-based in the code, 1-based here).
RECURSIVE FisherYates(_, _, _)

FisherYatesOverwrite(items, i, js) ==
    IF i <= 0 THEN items
    ELSE FisherYates([items EXCEPT ![i + 1] = items[js[i] + 1]], i - 1, js)

FisherYates(items, i, js) ==
    IF i <= 0 THEN items
    ELSE FisherYates(Swap(items, i + 1, js[i] + 1), i - 1, js)

\* The outcomes of Math.floor(Math.random() * (i + 1)) for i = 1..n-1.
RandomChoices(n) == {js \in [1..(n - 1) -> 0..(n - 1)] : \A i \in 1..(n - 1) : js[i] <= i}

\* The orders the loop at 749-752 can leave the deck in.
Shuffles(items) ==
    {FisherYates(items, Len(items) - 1, js) : js \in RandomChoices(Len(items))}

ShuffleFlashcards ==
    /\ UNCHANGED <<storedFlashcards, input, output, inflight, sessVars>>
    /\ IF ~IsList(flashcards)
       THEN /\ UNCHANGED deckVars
            /\ Ran(Op("shuffleFlashcards", 0, "call"), <<>>, TRUE)
       ELSE IF Len(flashcards.items) = 0
       THEN /\ UNCHANGED deckVars
            /\ Ran(Op("shuffleFlashcards", 0, "call"), <<>>, FALSE)
       ELSE \E shuffled \in Shuffles(flashcards.items) :
              /\ ReplaceDeck(List(shuffled))
              /\ IF DisplayThrows(flashcards', 0)
                 THEN Ran(Op("shuffleFlashcards", 0, "call"), <<>>, TRUE)
                 ELSE Ran(Op("shuffleFlashcards", 0, "call"), <<"success">>, FALSE)

\* confirmed: the answer to confirm('Clear all flashcards?')
ClearFlashcards ==
    /\ UNCHANGED <<storedFlashcards, input, output, inflight, sessVars>>
    /\ IF ~IsList(flashcards)
       THEN /\ UNCHANGED deckVars
            /\ Ran(Op("clearFlashcards", 0, "call"), <<>>, TRUE)
       ELSE IF Len(flashcards.items) = 0
       THEN /\ UNCHANGED deckVars
            /\ Ran(Op("clearFlashcards", 0, "call"), <<>>, FALSE)
       ELSE \E confirmed \in BOOLEAN :
              IF confirmed
              THEN /\ ReplaceDeck(EmptyDeck)
                   /\ Ran(Op("clearFlashcards", 1, "call"), <<"info">>, FALSE)
              ELSE /\ UNCHANGED deckVars
                   /\ Ran(Op("clearFlashcards", 0, "call"), <<>>, FALSE)

\* readOk: localStorage.getItem returns rather than throws.
LoadFlashcards ==
    /\ UNCHANGED <<storedFlashcards, input, output, inflight, sessVars>>
    /\ \E readOk \in BOOLEAN :
         IF ~readOk
         THEN /\ UNCHANGED deckVars
              /\ Ran(Op("loadFlashcards", 0, "call"), <<"error">>, FALSE)
         ELSE IF storedFlashcards.has /\ storedFlashcards.text # <<>>
         THEN LET p == JSONparse(storedFlashcards.text)
              IN IF ~p.ok
                 THEN /\ UNCHANGED deckVars
                      /\ Ran(Op("loadFlashcards", 1, "call"), <<"error">>, FALSE)
                 ELSE /\ ReplaceDeck(p.value)
                      /\ IF DisplayThrows(p.value, 0)
                         THEN Ran(Op("loadFlashcards", 1, "call"), <<"error">>, FALSE)
                         ELSE Ran(Op("loadFlashcards", 1, "call"), <<"success">>, FALSE)
         ELSE /\ UNCHANGED deckVars
              /\ Ran(Op("loadFlashcards", 1, "call"), <<"info">>, FALSE)

\* writeOk: localStorage.setItem returns rather than throws.
SaveFlashcards ==
    /\ UNCHANGED <<deckVars, input, output, inflight, sessVars>>
    /\ IF ~IsList(flashcards)
       THEN /\ UNCHANGED storedFlashcards
            /\ Ran(Op("saveFlashcards", 0, "call"), <<>>, TRUE)
       ELSE IF Len(flashcards.items) = 0
       THEN /\ UNCHANGED storedFlashcards
            /\ Ran(Op("saveFlashcards", 0, "call"), <<"warning">>, FALSE)
       ELSE \E writeOk \in BOOLEAN :
              IF writeOk
              THEN /\ storedFlashcards' = Stored(JSONstringify(flashcards))
                   /\ Ran(Op("saveFlashcards", 1, "call"), <<"success">>, FALSE)
              ELSE /\ UNCHANGED storedFlashcards
                   /\ Ran(Op("saveFlashcards", 0, "call"), <<"error">>, FALSE)

\* ------------------------------------------------------------------------
\* Input fields
\* ------------------------------------------------------------------------

\* validateInput, lines 149-150: the value the field keeps.
ValidatedValue(field, t) ==
    IF TextLen(t) > Limit(field) THEN Substring0(t, Limit(field)) ELSE t

\* An 'input' event that leaves text t in the field: validateInput runs.
InputEvent(field, t) ==
    /\ input' = [input EXCEPT ![field] = ValidatedValue(field, t)]
    /\ UNCHANGED <<deckVars, storedFlashcards, output, inflight, sessVars>>
    /\ Ran(Op("validateInput", 0, field),
           IF TextLen(t) > Limit(field) THEN <<"warning">> ELSE <<>>, FALSE)

\* ------------------------------------------------------------------------
\* Generation handlers: the part that runs on the click, up to the fetch
\* ------------------------------------------------------------------------

\* A request as the click leaves it: sent to the backend address,
\* awaiting fetch, no request of the same handler issued after it, no
\* response of such a request arrived.
Request(name, content) ==
    [op |-> name, url |-> state.backendUrl, pc |-> "fetch", body |-> content,
     newer |-> 0, overtaken |-> FALSE]

InFlight == BagCardinality(inflight)

\* A new request that aborts the requests of its handler still in flight.
AgedCancelled(bag, name) ==
    LET S == {r \in BagToSet(bag) : r.op # name}
    IN [r \in S |-> bag[r]]

\* The requests in flight once one more request of handler name is
\* issued: all of them stay, those of that handler have one more request
\* after them.
Aged(bag, name) ==
    LET Age(r) == IF r.op = name THEN [r EXCEPT !.newer = @ + 1] ELSE r
        S == BagToSet(bag)
    IN [t \in {Age(r) : r \in S} |-> bag[CHOOSE r \in S : Age(r) = t]]

\* The requests in flight once the promise of r has settled for the last
\* time: r is gone, and the requests of its handler issued before r have
\* the response of a later request ahead of theirs.
Settled(bag, r) ==
    LET Mark(q) == IF q.op = r.op /\ q.newer > r.newer
                   THEN [q EXCEPT !.overtaken = TRUE] ELSE q
        rest == bag (-) SetToBag({r})
        S == BagToSet(rest)
    IN [t \in {Mark(q) : q \in S} |-> rest[CHOOSE q \in S : Mark(q) = t]]

\* The value the field keeps when the trimmed text exceeds the limit.
Cut(content, limit) == Substring0(content, limit)

SubmitEmptyPasses(name, field, overKind, region) ==
    LET content == Trim(input[field])
    IN /\ UNCHANGED <<deckVars, storedFlashcards, sessVars>>
       /\ IF TextLen(content) > Limit(field)
          THEN /\ input' = [input EXCEPT ![field] = Cut(content, Limit(field))]
               /\ UNCHANGED <<output, inflight>>
               /\ Ran(Op(name, 0, "call"), <<overKind>>, FALSE)
          ELSE /\ InFlight < MaxInFlight
               /\ output' = IF region = "" THEN output
                            ELSE [output EXCEPT ![region] = "loading"]
               /\ inflight' = Aged(inflight, name)
                                 (+) SetToBag({Request(name, content)})
               /\ UNCHANGED input
               /\ Ran(Op(name, 1, "call"), <<>>, FALSE)

\* The common head of the four handlers: empty, over the limit, or sent.
\* overKind is the kind of the over-limit notification, region the output
\* region showLoading fills ("" for none), limit the number of requests
\* in flight up to which the click is followed.
SubmitUpTo(limit, name, field, overKind, region) ==
    LET content == Trim(input[field])
    IN /\ UNCHANGED <<deckVars, storedFlashcards, sessVars>>
       /\ IF content = <<>>
          THEN /\ UNCHANGED <<input, output, inflight>>
               /\ Ran(Op(name, 0, "call"), <<"warning">>, FALSE)
          ELSE IF TextLen(content) > Limit(field)
          THEN /\ input' = [input EXCEPT ![field] = Cut(content, Limit(field))]
               /\ UNCHANGED <<output, inflight>>
               /\ Ran(Op(name, 0, "call"), <<overKind>>, FALSE)
          ELSE /\ InFlight < limit
               /\ \A r \in BagToSet(inflight) :
                    r.op = name => r.newer + 1 < limit
               /\ output' = IF region = "" THEN output
                            ELSE [output EXCEPT ![region] = "loading"]
               /\ inflight' = Aged(inflight, name)
                                 (+) SetToBag({Request(name, content)})
               /\ UNCHANGED input
               /\ Ran(Op(name, 1, "call"), <<>>, FALSE)

Submit(name, field, overKind, region) ==
    SubmitUpTo(MaxInFlight, name, field, overKind, region)

GenerateExplanation ==
    Submit("generateExplanation", "topicInput", "warning", "explainOutput")

SummarizeNotes ==
    Submit("summarizeNotes", "notesInput", "info", "summaryOutput")

GenerateQuiz ==
    Submit("generateQuiz", "quizInput", "info", "quizOutput")

GenerateFlashcards ==
    Submit("generateFlashcards", "flashcardsInput", "info", "")

\* ------------------------------------------------------------------------
\* Generation handlers: the continuations after the two awaits
\* ------------------------------------------------------------------------

RegionOf(name) ==
    CASE name = "generateExplanation" -> "explainOutput"
      [] name = "summarizeNotes" -> "summaryOutput"
      [] name = "generateQuiz" -> "quizOutput"
      [] name = "generateFlashcards" -> ""

\* A catch block that notifies and leaves the region as it is.
CaughtNoPanel(r, phase) ==
    /\ UNCHANGED <<deckVars, storedFlashcards, input, output, sessVars>>
    /\ Ran(Op(r.op, 0, phase), <<"error">>, FALSE)

\* A catch block that also empties the deck.
CaughtClearsDeck(r, phase) ==
    /\ output' = IF RegionOf(r.op) = "" THEN output
                 ELSE [output EXCEPT ![RegionOf(r.op)] = "error"]
    /\ ReplaceDeck(EmptyDeck)
    /\ UNCHANGED <<storedFlashcards, input, sessVars>>
    /\ Ran(Op(r.op, 0, phase), <<"error">>, FALSE)

\* A catch block that also marks the backend as disconnected.
CaughtDisconnects(r, phase) ==
    /\ output' = IF RegionOf(r.op) = "" THEN output
                 ELSE [output EXCEPT ![RegionOf(r.op)] = "error"]
    /\ state' = [state EXCEPT !.connectionStatus = "disconnected"]
    /\ UNCHANGED <<deckVars, storedFlashcards, input, elements, storedSettings,
                   storedTheme, startup, checks, trace, notifications>>
    /\ Ran(Op(r.op, 0, phase), <<"error">>, FALSE)

\* The catch block: showError in the region, if any, and one notification.
Caught(r, phase) ==
    /\ output' = IF RegionOf(r.op) = "" THEN output
                 ELSE [output EXCEPT ![RegionOf(r.op)] = "error"]
    /\ UNCHANGED <<deckVars, storedFlashcards, input, sessVars>>
    /\ Ran(Op(r.op, 0, phase), <<"error">>, FALSE)

\* await fetch(...) settles: a 2xx response, another status, or a rejection.
FetchSettles ==
    \E r \in BagToSet(inflight) :
      /\ r.pc = "fetch"
      /\ \E outcome \in {"ok", "status", "network"} :
           IF outcome = "ok"
           THEN /\ inflight' = (inflight (-) SetToBag({r}))
                                 (+) SetToBag({[r EXCEPT !.pc = "json"]})
                /\ UNCHANGED <<deckVars, storedFlashcards, input, output, sessVars>>
                /\ Ran(Op(r.op, 1, "fetch"), <<>>, FALSE)
           ELSE /\ inflight' = Settled(inflight, r)
                /\ Caught(r, "fetch")

Shapes(name) ==
    CASE name = "generateExplanation" -> {"wellformed", "malformed", "unparsable"}
      [] name = "summarizeNotes" -> {"wellformed", "malformed", "unparsable"}
      [] name = "generateQuiz" -> {"questions", "empty", "absent", "unparsable"}
      [] name = "generateFlashcards" -> {"deck", "absent", "unparsable"}

\* await response.json() settles for a request of the three region
\* handlers; shape is the body the backend sent, and the segment is
\* recorded under it.  A quiz body without a questions field is rendered
\* by renderQuiz and then read at line 547 (data.questions.length), a
\* TypeError that the catch block handles.
RegionResponse ==
    \E r \in BagToSet(inflight) :
      /\ r.pc = "json"
      /\ r.op # "generateFlashcards"
      /\ inflight' = Settled(inflight, r)
      /\ \E shape \in Shapes(r.op) :
           CASE shape \in {"wellformed", "questions"} ->
                  /\ output' = [output EXCEPT ![RegionOf(r.op)] = "result"]
                  /\ UNCHANGED <<deckVars, storedFlashcards, input, sessVars>>
                  /\ Segment(Op(r.op, 1, shape), <<"success">>, FALSE,
                             r.overtaken)
             [] shape = "empty" ->
                  /\ output' = [output EXCEPT ![RegionOf(r.op)] = "emptyState"]
                  /\ UNCHANGED <<deckVars, storedFlashcards, input, sessVars>>
                  /\ Segment(Op(r.op, 1, shape), <<"success">>, FALSE,
                             r.overtaken)
             [] OTHER -> Caught(r, shape)

\* The same continuation ending by a write of the new deck to the
\* storage key.
FlashcardsResponseSaves(decks) ==
    \E r \in BagToSet(inflight) :
      /\ r.pc = "json"
      /\ r.op = "generateFlashcards"
      /\ inflight' = Settled(inflight, r)
      /\ \E shape \in Shapes(r.op) :
           CASE shape = "deck" ->
                  \E d \in decks :
                    /\ ReplaceDeck(List(d))
                    /\ storedFlashcards' = Stored(JSONstringify(List(d)))
                    /\ UNCHANGED <<input, output, sessVars>>
                    /\ Segment(Op(r.op, 1, shape), <<"success">>, FALSE,
                               r.overtaken)
             [] shape = "absent" ->
                  /\ ReplaceDeck(EmptyDeck)
                  /\ UNCHANGED <<storedFlashcards, input, output, sessVars>>
                  /\ Segment(Op(r.op, 1, shape), <<"success">>, FALSE,
                             r.overtaken)
             [] OTHER -> Caught(r, shape)

\* await response.json() settles for a generateFlashcards request; decks is
\* the set of decks the backend may answer with, shape the body it sent,
\* under which the segment is recorded.
FlashcardsResponse(decks) ==
    \E r \in BagToSet(inflight) :
      /\ r.pc = "json"
      /\ r.op = "generateFlashcards"
      /\ inflight' = Settled(inflight, r)
      /\ \E shape \in Shapes(r.op) :
           CASE shape = "deck" ->
                  \E d \in decks :
                    /\ ReplaceDeck(List(d))
                    /\ UNCHANGED <<storedFlashcards, input, output, sessVars>>
                    /\ Segment(Op(r.op, 1, shape), <<"success">>, FALSE,
                               r.overtaken)
             [] shape = "absent" ->
                  /\ ReplaceDeck(EmptyDeck)
                  /\ UNCHANGED <<storedFlashcards, input, output, sessVars>>
                  /\ Segment(Op(r.op, 1, shape), <<"success">>, FALSE,
                             r.overtaken)
             [] OTHER -> Caught(r, shape)

\* ------------------------------------------------------------------------
\* Page load: loadSettings, setupTheme, initializeApp and its two checks
\* ------------------------------------------------------------------------

genVars == <<deckVars, storedFlashcards, input, output, inflight>>

\* The constructor's values of the fields of this.state modelled here.
DefaultState ==
    [currentTab |-> "explainer", theme |-> Dark, model |-> Phi3Mini,
     apiUrl |-> LocalOllama, backendUrl |-> LocalBackend, isPhi3 |-> TRUE,
     connectionStatus |-> "disconnected"]

\* The page as the markup gives it: both settings fields at the defaults,
\* the settings modal closed, the loading screen shown.
DefaultElements ==
    [modelSelect |-> Phi3Mini, apiUrl |-> LocalOllama,
     settingsActive |-> FALSE, loadingShown |-> TRUE]

\* init() runs lines 34-39 and initializeApp up to its first await in one
\* turn of the event loop: no handler runs in between.
Listening == startup.pc \notin {"loadSettings", "setupTheme", "initializeApp"}

\* Clicks and edits reach the page once the loading screen is gone; key
\* presses reach the document listener as soon as it is bound.
Revealed == Listening /\ ~elements.loadingShown

\* The catch block of loadSettings: console.error only.
LoadSettingsCaughtNotifies(phase) ==
    Ran(Op("loadSettings", 0, phase), <<"error">>, FALSE)

LoadSettingsCaught(phase) ==
    Ran(Op("loadSettings", 0, phase), <<>>, FALSE)

\* readOk: localStorage.getItem returns rather than throws.
LoadSettings ==
    /\ startup.pc = "loadSettings"
    /\ startup' = [startup EXCEPT !.pc = "setupTheme"]
    /\ UNCHANGED <<genVars, notifications, storedSettings, storedTheme, checks, trace>>
    /\ \E readOk \in BOOLEAN :
         IF ~readOk
         THEN /\ UNCHANGED <<state, elements>>
              /\ LoadSettingsCaught("getItem")
         ELSE IF storedSettings.has /\ storedSettings.text # <<>>
         THEN LET p == ParseSettings(storedSettings.text)
                  theme == OrDefault(p.obj.theme, Dark)
                  model == OrDefault(p.obj.model, Phi3Mini)
                  apiUrl == OrDefault(p.obj.apiUrl, LocalOllama)
              IN IF ~p.ok
                 THEN /\ UNCHANGED <<state, elements>>
                      /\ LoadSettingsCaught("parse")
                 ELSE IF p.null
                 THEN /\ UNCHANGED <<state, elements>>
                      /\ LoadSettingsCaught("theme")
                 ELSE IF StartsWithThrows(model)
                 THEN /\ state' = [state EXCEPT !.theme = theme,
                                                !.model = model,
                                                !.apiUrl = apiUrl]
                      /\ UNCHANGED elements
                      /\ LoadSettingsCaught("startsWith")
                 ELSE /\ state' = [state EXCEPT !.theme = theme,
                                                !.model = model,
                                                !.apiUrl = apiUrl,
                                                !.isPhi3 = StartsWithPhi3(model)]
                      /\ elements' = [elements EXCEPT !.modelSelect = model,
                                                      !.apiUrl = apiUrl]
                      /\ Ran(Op("loadSettings", 1, "call"), <<>>, FALSE)
         ELSE /\ UNCHANGED <<state, elements>>
              /\ Ran(Op("loadSettings", 1, "call"), <<>>, FALSE)

\* setTheme, lines 812-814: the state field, then the storage key; an
\* exception of setItem leaves setTheme there.
\* writeOk: localStorage.setItem returns rather than throws.
SetThemeNoWrite(theme, writeOk) ==
    /\ state' = [state EXCEPT !.theme = theme]
    /\ UNCHANGED storedTheme

SetTheme(theme, writeOk) ==
    /\ state' = [state EXCEPT !.theme = theme]
    /\ storedTheme' = IF writeOk THEN Stored(StringOf(theme)) ELSE storedTheme

\* An exception of getItem or setItem leaves init(): initializeApp is
\* never called.
SetupTheme ==
    /\ startup.pc = "setupTheme"
    /\ UNCHANGED <<genVars, notifications, elements, storedSettings, checks, trace>>
    /\ \E readOk \in BOOLEAN, writeOk \in BOOLEAN :
         IF ~readOk
         THEN /\ startup' = [startup EXCEPT !.pc = "crashed"]
              /\ UNCHANGED <<state, storedTheme>>
              /\ Ran(Op("setupTheme", 0, "getItem"), <<>>, TRUE)
         ELSE LET savedTheme == IF storedTheme.has /\ storedTheme.text # <<>>
                                THEN Str(storedTheme.text)
                                ELSE state.theme
              IN /\ SetTheme(savedTheme, writeOk)
                 /\ IF writeOk
                    THEN /\ startup' = [startup EXCEPT !.pc = "initializeApp"]
                         /\ Ran(Op("setupTheme", 1, "call"), <<>>, FALSE)
                    ELSE /\ startup' = [startup EXCEPT !.pc = "crashed"]
                         /\ Ran(Op("setupTheme", 0, "setItem"), <<>>, TRUE)

\* initializeApp up to the await of checkBackend's fetch.
InitializeApp ==
    /\ startup.pc = "initializeApp"
    /\ startup' = [startup EXCEPT !.pc = "health"]
    /\ UNCHANGED <<genVars, notifications, state, elements, storedSettings, storedTheme,
                   checks, trace>>
    /\ Ran(Op("initializeApp", 0, "call"), <<>>, FALSE)

\* checkBackend falls through to lines 258-259 and initializeApp goes on
\* without its return of line 215.
BackendDownNoReturn(phase) ==
    /\ state' = [state EXCEPT !.connectionStatus = "disconnected"]
    /\ startup' = [startup EXCEPT !.pc = "ollama", !.backendOk = "failed"]
    /\ trace' = [trace EXCEPT !.ollamaIssued = TRUE]
    /\ UNCHANGED <<genVars, notifications, elements, storedSettings, storedTheme, checks>>
    /\ Ran(Op("checkBackend", 0, phase), <<>>, FALSE)

\* checkBackend falls through to lines 258-259 and returns false;
\* initializeApp writes the remediation text and returns.
BackendDown(phase) ==
    /\ state' = [state EXCEPT !.connectionStatus = "disconnected"]
    /\ startup' = [startup EXCEPT !.pc = "halted", !.backendOk = "failed"]
    /\ UNCHANGED <<genVars, notifications, elements, storedSettings, storedTheme, checks,
                   trace>>
    /\ Ran(Op("checkBackend", 0, phase), <<>>, FALSE)

\* await fetch(.../health) settles.
HealthSettles ==
    /\ startup.pc = "health"
    /\ \E outcome \in {"ok", "status", "network"} :
         IF outcome = "ok"
         THEN /\ startup' = [startup EXCEPT !.pc = "healthJson"]
              /\ UNCHANGED <<genVars, notifications, state, elements, storedSettings,
                             storedTheme, checks, trace>>
              /\ Ran(Op("checkBackend", 1, "fetch"), <<>>, FALSE)
         ELSE BackendDown("fetch")

\* await response.json() of the health response settles: parsed, or
\* rejected because the body is no JSON.  On true initializeApp goes on to
\* the await of checkOllama's fetch.
HealthBody ==
    /\ startup.pc = "healthJson"
    /\ \E parsed \in BOOLEAN :
         IF parsed
         THEN /\ state' = [state EXCEPT !.connectionStatus = "connected"]
              /\ startup' = [startup EXCEPT !.pc = "ollama", !.backendOk = "ok"]
              /\ trace' = [trace EXCEPT !.ollamaIssued = TRUE]
              /\ UNCHANGED <<genVars, notifications, elements, storedSettings, storedTheme,
                             checks>>
              /\ Ran(Op("checkBackend", 1, "json"), <<>>, FALSE)
         ELSE BackendDown("json")

\* What checkOllama does to this.state when its fetch settles.
OllamaResultSetsStatus(ok) ==
    state' = [state EXCEPT !.connectionStatus =
                              IF ok THEN "connected" ELSE "disconnected"]

OllamaResult(ok) == UNCHANGED state

\* await fetch(.../api/tags) of the startup check settles; initializeApp
\* writes the loading status and sets the timer.
OllamaSettles ==
    /\ startup.pc = "ollama"
    /\ \E outcome \in {"ok", "status", "network"} :
         /\ startup' = [startup EXCEPT
                          !.pc = "timer",
                          !.ollamaOk = IF outcome = "ok" THEN "ok" ELSE "failed"]
         /\ OllamaResult(outcome = "ok")
         /\ UNCHANGED <<genVars, notifications, elements, storedSettings, storedTheme,
                        checks, trace>>
         /\ Ran(Op("checkOllama", IF outcome = "ok" THEN 1 ELSE 0,
                   "initializeApp"), <<>>, FALSE)

ReadyKindSuccess(ollamaOk) == "success"

\* lines 241-242: the kind of the readiness notification
ReadyKind(ollamaOk) == IF ollamaOk = "ok" THEN "success" ELSE "warning"

\* The timer callback, lines 233-243.
ReadyTimer ==
    /\ startup.pc = "timer"
    /\ startup' = [startup EXCEPT !.pc = "ready"]
    /\ elements' = [elements EXCEPT !.loadingShown = FALSE]
    /\ trace' = [trace EXCEPT
                   !.hides = @ + 1,
                   !.readyNotes = Append(@, ReadyKind(startup.ollamaOk))]
    /\ UNCHANGED <<genVars, notifications, state, storedSettings, storedTheme, checks>>
    /\ Ran(Op("initializeApp", 1, "timer"), <<ReadyKind(startup.ollamaOk)>>, FALSE)

\* ------------------------------------------------------------------------
\* Settings and theme handlers
\* ------------------------------------------------------------------------

\* The three assignments of lines 793-795.
\* Assignments that take the address typed in the modal for the backend
\* as well.
AppliedToBackend(settings) ==
    [state EXCEPT !.model = settings.model,
                  !.apiUrl = settings.apiUrl,
                  !.backendUrl = settings.apiUrl,
                  !.isPhi3 = StartsWithPhi3(settings.model)]

Applied(settings) ==
    [state EXCEPT !.model = settings.model,
                  !.apiUrl = settings.apiUrl,
                  !.isPhi3 = StartsWithPhi3(settings.model)]

\* The assignments of lines 793-795 moved above the setItem of line 792.
SaveSettingsAssignFirst ==
    /\ Revealed
    /\ UNCHANGED <<genVars, notifications, storedTheme, startup>>
    /\ LET settings == [theme |-> state.theme,
                        model |-> elements.modelSelect,
                        apiUrl |-> elements.apiUrl]
       IN \E writeOk \in BOOLEAN :
            IF writeOk
            THEN /\ checks < MaxInFlight
                 /\ storedSettings' = Stored(StringifySettings(settings))
                 /\ state' = Applied(settings)
                 /\ elements' = [elements EXCEPT !.settingsActive = FALSE]
                 /\ checks' = checks + 1
                 /\ trace' = [trace EXCEPT !.ollamaIssued = TRUE]
                 /\ Ran(Op("saveSettings", 1, "call"), <<"success">>, FALSE)
            ELSE /\ state' = Applied(settings)
                 /\ UNCHANGED <<storedSettings, elements, checks, trace>>
                 /\ Ran(Op("saveSettings", 0, "call"), <<"error">>, FALSE)

\* saveSettings; on success it ends by calling checkOllama, which runs up
\* to the await of its fetch.
\* writeOk: localStorage.setItem returns rather than throws.
SaveSettings ==
    /\ Revealed
    /\ UNCHANGED <<genVars, notifications, storedTheme, startup>>
    /\ LET settings == [theme |-> state.theme,
                        model |-> elements.modelSelect,
                        apiUrl |-> elements.apiUrl]
       IN \E writeOk \in BOOLEAN :
            IF writeOk
            THEN /\ checks < MaxInFlight
                 /\ storedSettings' = Stored(StringifySettings(settings))
                 /\ state' = Applied(settings)
                 /\ elements' = [elements EXCEPT !.settingsActive = FALSE]
                 /\ checks' = checks + 1
                 /\ trace' = [trace EXCEPT !.ollamaIssued = TRUE]
                 /\ Ran(Op("saveSettings", 1, "call"), <<"success">>, FALSE)
            ELSE /\ UNCHANGED <<state, storedSettings, elements, checks, trace>>
                 /\ Ran(Op("saveSettings", 0, "call"), <<"error">>, FALSE)

\* await fetch(.../api/tags) of a check started by saveSettings settles;
\* nobody reads the result.
SaveCheckSettles ==
    /\ checks > 0
    /\ checks' = checks - 1
    /\ \E outcome \in {"ok", "status", "network"} :
         /\ OllamaResult(outcome = "ok")
         /\ Ran(Op("checkOllama", IF outcome = "ok" THEN 1 ELSE 0,
                   "saveSettings"), <<>>, FALSE)
    /\ UNCHANGED <<genVars, notifications, elements, storedSettings, storedTheme, startup,
                   trace>>

\* A handler that is one call of setTheme; the session records the theme
\* the user set and whether its write returned.
ThemeHandler(name, theme) ==
    /\ UNCHANGED <<genVars, notifications, elements, storedSettings, startup, checks>>
    /\ \E writeOk \in BOOLEAN :
         /\ SetTheme(theme, writeOk)
         /\ trace' = [trace EXCEPT !.lastTheme = theme, !.themeSaved = writeOk]
         /\ Ran(Op(name, IF writeOk THEN 1 ELSE 0, "call"), <<>>, ~writeOk)

\* toggleTheme() called for Ctrl+T, recorded as segment o.
Toggled(o) ==
    \E writeOk \in BOOLEAN :
      /\ SetTheme(IF state.theme = Dark THEN Light ELSE Dark, writeOk)
      /\ trace' = [trace EXCEPT
                     !.lastTheme = IF state.theme = Dark THEN Light ELSE Dark,
                     !.themeSaved = writeOk]
      /\ Ran(o, <<>>, ~writeOk)

\* The theme button, or Ctrl+T.
ToggleTheme ==
    /\ Listening
    /\ ThemeHandler("toggleTheme", IF state.theme = Dark THEN Light ELSE Dark)

Themes == {Dark, Light}

\* A click on the theme option whose data-theme is theme.
SelectThemeOption(theme) ==
    /\ Revealed
    /\ ThemeHandler("selectThemeOption", theme)

OpenSettings ==
    /\ Revealed
    /\ elements' = [elements EXCEPT !.settingsActive = TRUE]
    /\ UNCHANGED <<genVars, notifications, state, storedSettings, storedTheme, startup,
                   checks, trace>>
    /\ Ran(Op("openSettings", 0, "call"), <<>>, FALSE)

\* The two close buttons, or Escape.
CloseSettings ==
    /\ Listening
    /\ elements' = [elements EXCEPT !.settingsActive = FALSE]
    /\ UNCHANGED <<genVars, notifications, state, storedSettings, storedTheme, startup,
                   checks, trace>>
    /\ Ran(Op("closeSettings", 0, "call"), <<>>, FALSE)

Models == {Phi3Mini, Llama3}
ApiUrls == {LocalOllama, RemoteOllama}

\* The user picks a model and types an address in the settings modal; no
\* handler of the application runs.
EditSettings(model, apiUrl) ==
    /\ Revealed
    /\ elements.settingsActive
    /\ elements' = [elements EXCEPT !.modelSelect = model, !.apiUrl = apiUrl]
    /\ UNCHANGED <<genVars, notifications, state, storedSettings, storedTheme, startup,
                   checks, trace>>
    /\ Ran(Op("editSettings", 0, "call"), <<>>, FALSE)

\* ------------------------------------------------------------------------
\* Tabs and keyboard shortcuts
\* ------------------------------------------------------------------------

\* The data-tab values of the navigation items: the two the code names
\* and one for every other.
OtherTab == "other"
Tabs == {"explainer", "flashcards", OtherTab}

\* switchTab for a click on the navigation item whose data-tab is tabId,
\* recorded as segment o.
Switched(o, tabId) ==
    /\ state' = [state EXCEPT !.currentTab = tabId]
    /\ UNCHANGED <<genVars, notifications, elements, storedSettings,
                   storedTheme, startup, checks, trace>>
    /\ Ran(o, <<>>, tabId = "flashcards"
                      /\ DisplayThrows(flashcards, currentFlashcardIndex))

SwitchTab(tabId) ==
    /\ Revealed
    /\ Switched(Op("switchTab", 0, tabId), tabId)

Digits == {"1", "2", "3", "4"}
Keys == Digits \cup {"t", "Ctrl+t", "Escape", "ArrowLeft", "ArrowRight", " "}

\* The switch statement at 904-934 for key, recorded as segment o.  A
\* digit clicks the navigation item at its position, when the markup has
\* one there.
Shortcut(o, key) ==
    CASE key \in Digits ->
           \/ \E tabId \in Tabs : Switched(o, tabId)
           \/ /\ UNCHANGED <<genVars, sessVars>>
              /\ Ran(o, <<>>, FALSE)
      [] key = "Ctrl+t" ->
           /\ UNCHANGED <<genVars, notifications, elements, storedSettings,
                          startup, checks>>
           /\ Toggled(o)
      [] key = "Escape" ->
           /\ elements' = [elements EXCEPT !.settingsActive = FALSE]
           /\ UNCHANGED <<genVars, notifications, state, storedSettings,
                          storedTheme, startup, checks, trace>>
           /\ Ran(o, <<>>, FALSE)
      [] key \in {"ArrowLeft", "ArrowRight"} ->
           IF state.currentTab = "flashcards"
           THEN /\ UNCHANGED <<storedFlashcards, input, output, inflight, sessVars>>
                /\ Navigated(o, IF key = "ArrowLeft" THEN -1 ELSE 1)
           ELSE /\ UNCHANGED <<genVars, sessVars>>
                /\ Ran(o, <<>>, FALSE)
      [] key = " " ->
           IF state.currentTab = "flashcards"
           THEN /\ UNCHANGED <<storedFlashcards, input, output, inflight, sessVars>>
                /\ Flipped(o)
           ELSE /\ UNCHANGED <<genVars, sessVars>>
                /\ Ran(o, <<>>, FALSE)
      [] OTHER ->
           /\ UNCHANGED <<genVars, sessVars>>
           /\ Ran(o, <<>>, FALSE)

\* The handler without the check of e.target at line 902.
HandleKeyboardShortcutsAnyTarget(key, inField) ==
    /\ Listening
    /\ Shortcut(Op("handleKeyboardShortcuts", IF inField THEN 0 ELSE 1, key), key)

\* A keydown event on the document: key is e.key ("Ctrl+t" for t with
\* e.ctrlKey), inField tells whether e.target is a textarea, an input or
\* a select.
HandleKeyboardShortcuts(key, inField) ==
    /\ Listening
    /\ IF inField
       THEN /\ UNCHANGED <<genVars, sessVars>>
            /\ Ran(Op("handleKeyboardShortcuts", 0, key), <<>>, FALSE)
       ELSE Shortcut(Op("handleKeyboardShortcuts", 1, key), key)

\* ------------------------------------------------------------------------
\* Notifications: showNotification, the close button, and the two timers
\* ------------------------------------------------------------------------

\* A notification node: whether it is in the container, whether its
\* duration timer is pending, and how many 300 ms removal timers are.
Slots == 1..MaxNotifications
NoNode == [attached |-> FALSE, timer |-> FALSE, removals |-> 0]
NoNotifications == [i \in Slots |-> NoNode]

\* Timers pending on a node.
Pending(n) == n.removals + (IF n.timer THEN 1 ELSE 0)

\* A removal that empties the whole container.
RemovedAll(ns, i) ==
    [j \in Slots |-> IF j = i THEN [ns[j] EXCEPT !.attached = FALSE,
                                                 !.removals = @ - 1]
                     ELSE [ns[j] EXCEPT !.attached = FALSE]]

\* notification.remove() run by one of the node's removal timers: the
\* node leaves the container, or nothing happens when it has left already.
Removed(ns, i) ==
    [ns EXCEPT ![i] = [@ EXCEPT !.attached = FALSE, !.removals = @ - 1]]

\* showNotification: a new node is appended, its close listener is bound
\* and its duration timer is set.
ShowNotification ==
    \E i \in Slots :
      /\ notifications[i] = NoNode
      /\ \A j \in 1..(i - 1) : notifications[j] # NoNode
      /\ notifications' = [notifications EXCEPT
                             ![i] = [attached |-> TRUE, timer |-> TRUE,
                                     removals |-> 0]]
      /\ UNCHANGED <<genVars, state, elements, storedSettings, storedTheme,
                     startup, checks, trace>>
      /\ Ran(Op("showNotification", i, "call"), <<>>, FALSE)

\* A click on the close button of a node that is on the page: the reverse
\* animation starts and a removal timer is set.
Dismiss(i) ==
    /\ notifications[i].attached
    /\ Pending(notifications[i]) < MaxTimers
    /\ notifications' = [notifications EXCEPT ![i].removals = @ + 1]
    /\ UNCHANGED <<genVars, state, elements, storedSettings, storedTheme,
                   startup, checks, trace>>
    /\ Ran(Op("showNotification", i, "close"), <<>>, FALSE)

\* The duration timer fires: a node still in the container fades and
\* gets a removal timer, a node that has left is not touched.
DurationFires(i) ==
    /\ notifications[i].timer
    /\ notifications' =
         [notifications EXCEPT
            ![i] = [@ EXCEPT !.timer = FALSE,
                             !.removals = IF notifications[i].attached
                                          THEN @ + 1 ELSE @]]
    /\ UNCHANGED <<genVars, state, elements, storedSettings, storedTheme,
                   startup, checks, trace>>
    /\ Ran(Op("showNotification", i, "timeout"), <<>>, FALSE)

\* A removal timer fires.
RemoveFires(i) ==
    /\ notifications[i].removals > 0
    /\ notifications' = Removed(notifications, i)
    /\ UNCHANGED <<genVars, state, elements, storedSettings, storedTheme,
                   startup, checks, trace>>
    /\ Ran(Op("showNotification", i, "remove"), <<>>, FALSE)

\* The start of a page session: the constructor's state, nothing run yet.
SessionStart ==
    /\ state = DefaultState
    /\ elements = DefaultElements
    /\ startup = [pc |-> "loadSettings", backendOk |-> "pending",
                  ollamaOk |-> "pending"]
    /\ checks = 0

\* The page is loaded again: a new ConceptaApp over the same localStorage;
\* requests and timers of the old page are dropped.
Reload ==
    /\ Listening
    /\ flashcards' = EmptyDeck
    /\ currentFlashcardIndex' = 0
    /\ isFlashcardFlipped' = FALSE
    /\ input' = [f \in Fields |-> <<>>]
    /\ output' = [r \in Regions |-> "initial"]
    /\ inflight' = EmptyBag
    /\ state' = DefaultState
    /\ elements' = DefaultElements
    /\ startup' = [pc |-> "loadSettings", backendOk |-> "pending",
                   ollamaOk |-> "pending"]
    /\ checks' = 0
    /\ notifications' = NoNotifications
    /\ trace' = [trace EXCEPT !.hides = 0, !.readyNotes = <<>>,
                              !.ollamaIssued = FALSE]
    /\ UNCHANGED <<storedFlashcards, storedSettings, storedTheme>>
    /\ Ran(Op("constructor", 0, "call"), <<>>, FALSE)

\* ------------------------------------------------------------------------
\* Specification of the flashcard deck: its handlers, the storage key and
\* generateFlashcards with its requests.
\* ------------------------------------------------------------------------

\* The decks the backend answers with: for each length up to MaxDeck, the
\* deck of card 2 followed by copies of card 1.
DeckOfLen(k) == [i \in 1..k |-> IF i = 1 THEN Card(2) ELSE Card(1)]
Decks == {DeckOfLen(k) : k \in 0..MaxDeck}

\* What the storage key may hold when the page loads.
StoredAtLoad ==
    {Absent, Stored(<<>>), Stored(<<"[">>), Stored(<<"null">>),
     Stored(<<"[", "null", "]">>),
     Stored(JSONstringify(List(<<Card(1)>>)))}

\* What the user leaves in the flashcards field: nothing, or a space and
\* FlashcardsLimit letters.
DeckTexts == {<<>>, <<Run(TRUE, 1), Run(FALSE, FlashcardsLimit)>>}

InitState ==
    /\ flashcards = EmptyDeck
    /\ currentFlashcardIndex = 0
    /\ isFlashcardFlipped = FALSE
    /\ output = [r \in Regions |-> "initial"]
    /\ inflight = EmptyBag
    /\ notifications = NoNotifications
    /\ lastOp = Op("constructor", 0, "call")
    /\ afterSave = FALSE
    /\ lastNotes = <<>>
    /\ lastThrew = FALSE
    /\ lastStale = FALSE
    /\ runLen = 0
    /\ runStart = [index |-> 0, flipped |-> FALSE]

\* The page session once the page has loaded with both checks passed and
\* nothing in the settings key.
Loaded ==
    /\ state = [DefaultState EXCEPT !.connectionStatus = "connected"]
    /\ elements = [DefaultElements EXCEPT !.loadingShown = FALSE]
    /\ storedSettings = Absent
    /\ storedTheme = Stored(StringOf(Dark))
    /\ startup = [pc |-> "ready", backendOk |-> "ok", ollamaOk |-> "ok"]
    /\ checks = 0
    /\ trace = [hides |-> 1, readyNotes |-> <<"success">>,
                ollamaIssued |-> TRUE, lastTheme |-> Undefined,
                themeSaved |-> FALSE]

Init ==
    /\ InitState
    /\ Loaded
    /\ storedFlashcards \in StoredAtLoad
    /\ input = [f \in Fields |-> <<>>]

Next ==
    \/ \E t \in DeckTexts : InputEvent("flashcardsInput", t)
    \/ GenerateFlashcards
    \/ FetchSettles
    \/ FlashcardsResponse(Decks)
    \/ LoadFlashcards
    \/ SaveFlashcards
    \/ ClearFlashcards
    \/ NavigateFlashcard(1)
    \/ NavigateFlashcard(-1)
    \/ FlipFlashcard
    \/ ShuffleFlashcards

Spec == Init /\ [][Next]_vars

\* ------------------------------------------------------------------------
\* Specification of the generation handlers: the page loads with text in
\* its input fields (values the browser restored, no 'input' event) and
\* the user clicks the four buttons.
\* ------------------------------------------------------------------------

\* Texts around the limit of a field: whitespace only, a short text between
\* spaces, one letter over the limit, and a text over the limit whose cut
\* ends in a space.
FieldTexts(field) ==
    {<<Run(TRUE, 3)>>,
     <<Run(TRUE, 1), Run(FALSE, 5), Run(TRUE, 2)>>,
     <<Run(FALSE, Limit(field) + 1)>>,
     <<Run(TRUE, 1), Run(FALSE, Limit(field) - 1), Run(TRUE, 2), Run(FALSE, 1)>>}

\* One field holds one of its texts; the others are all empty or all hold
\* a space.
InitGen ==
    /\ InitState
    /\ Loaded
    /\ storedFlashcards = Absent
    /\ \E f0 \in Fields : \E t \in FieldTexts(f0) :
         \E w \in {<<>>, <<Run(TRUE, 1)>>} :
           input = [f \in Fields |-> IF f = f0 THEN t ELSE w]

NextGen ==
    \/ GenerateExplanation
    \/ SummarizeNotes
    \/ GenerateQuiz
    \/ GenerateFlashcards
    \/ FetchSettles
    \/ RegionResponse
    \/ FlashcardsResponse({DeckOfLen(1)})

SpecGen == InitGen /\ [][NextGen]_vars

\* ------------------------------------------------------------------------
\* Specification of the page load: init() from loadSettings on, the two
\* checks, the timer, and the theme and settings handlers the user can
\* reach meanwhile and afterwards.
\* ------------------------------------------------------------------------

\* The settings a session before this one saved.
OlderSettings ==
    StringifySettings([theme |-> Light, model |-> Llama3, apiUrl |-> RemoteOllama])

\* What the settings key may hold when the page loads: nothing, the empty
\* string, a cut-off text, null, an empty object, an object with the theme
\* only, an object whose model is a number, and saved settings.
SettingsAtLoad ==
    {Absent, Stored(<<>>), Stored(<<Punct("{")>>), Stored(<<NullTok>>),
     Stored(<<Punct("{"), Punct("}")>>),
     Stored(<<Punct("{"), KeyTok("theme"), Light, Punct("}")>>),
     Stored(<<Punct("{"), KeyTok("theme"), Light, KeyTok("model"), Num("5"),
              Punct("}")>>),
     Stored(OlderSettings)}

ThemeAtLoad == {Absent, Stored(StringOf(Dark)), Stored(StringOf(Light))}

NoTrace ==
    [hides |-> 0, readyNotes |-> <<>>, ollamaIssued |-> FALSE,
     lastTheme |-> Undefined, themeSaved |-> FALSE]

InitStartup ==
    /\ InitState
    /\ SessionStart
    /\ storedFlashcards = Absent
    /\ input = [f \in Fields |-> <<>>]
    /\ storedSettings \in SettingsAtLoad
    /\ storedTheme \in ThemeAtLoad
    /\ trace = NoTrace

NextStartup ==
    \/ LoadSettings
    \/ SetupTheme
    \/ InitializeApp
    \/ HealthSettles
    \/ HealthBody
    \/ OllamaSettles
    \/ ReadyTimer
    \/ ToggleTheme
    \/ SaveSettings
    \/ SaveCheckSettles

SpecStartup == InitStartup /\ [][NextStartup]_vars

\* The same page load when the inference-engine request settles and the
\* event loop runs the timer that is due.
SpecStartupFair ==
    SpecStartup /\ WF_vars(OllamaSettles) /\ WF_vars(ReadyTimer)

\* ------------------------------------------------------------------------
\* Specification of the settings modal on the loaded page.
\* ------------------------------------------------------------------------

InitSettings ==
    /\ InitState
    /\ Loaded
    /\ storedFlashcards = Absent
    /\ input = [f \in Fields |-> <<>>]

NextSettings ==
    \/ OpenSettings
    \/ CloseSettings
    \/ \E model \in Models, apiUrl \in ApiUrls : EditSettings(model, apiUrl)
    \/ SaveSettings
    \/ SaveCheckSettles
    \/ ToggleTheme
    \/ \E theme \in Themes : SelectThemeOption(theme)

SpecSettings == InitSettings /\ [][NextSettings]_vars

\* ------------------------------------------------------------------------
\* Specification of the theme across page loads.
\* ------------------------------------------------------------------------

NextReload ==
    \/ LoadSettings
    \/ SetupTheme
    \/ InitializeApp
    \/ HealthSettles
    \/ HealthBody
    \/ OllamaSettles
    \/ ReadyTimer
    \/ ToggleTheme
    \/ \E theme \in Themes : SelectThemeOption(theme)
    \/ SaveSettings
    \/ SaveCheckSettles
    \/ Reload

SpecReload == InitStartup /\ [][NextReload]_vars

\* ------------------------------------------------------------------------
\* Specification of racing requests: the user clicks the explain and the
\* generate-flashcards buttons again while requests are in flight, and
\* moves through the deck meanwhile.
\* ------------------------------------------------------------------------

RaceDecks == {DeckOfLen(1), DeckOfLen(2)}

InitRace ==
    /\ InitState
    /\ Loaded
    /\ storedFlashcards = Absent
    /\ input = [f \in Fields |->
                 IF f \in {"topicInput", "flashcardsInput"}
                 THEN <<Run(FALSE, 5)>> ELSE <<>>]

NextRace ==
    \/ SubmitUpTo(MaxRacing, "generateExplanation", "topicInput", "warning",
                  "explainOutput")
    \/ SubmitUpTo(MaxRacing, "generateFlashcards", "flashcardsInput", "info", "")
    \/ FetchSettles
    \/ RegionResponse
    \/ FlashcardsResponse(RaceDecks)
    \/ NavigateFlashcard(1)
    \/ NavigateFlashcard(-1)
    \/ FlipFlashcard

SpecRace == InitRace /\ [][NextRace]_vars

\* ------------------------------------------------------------------------
\* Specification of a page session from the page load on: the startup
\* checks, then explanation requests, settings saves and theme changes.
\* ------------------------------------------------------------------------

InitSession ==
    /\ InitState
    /\ SessionStart
    /\ storedFlashcards = Absent
    /\ input = [f \in Fields |->
                 IF f = "topicInput" THEN <<Run(FALSE, 5)>> ELSE <<>>]
    /\ storedSettings \in {Absent, Stored(OlderSettings)}
    /\ storedTheme = Absent
    /\ trace = NoTrace

NextSession ==
    \/ LoadSettings
    \/ SetupTheme
    \/ InitializeApp
    \/ HealthSettles
    \/ HealthBody
    \/ OllamaSettles
    \/ ReadyTimer
    \/ Revealed /\ GenerateExplanation
    \/ FetchSettles
    \/ RegionResponse
    \/ OpenSettings
    \/ \E model \in Models, apiUrl \in ApiUrls : EditSettings(model, apiUrl)
    \/ SaveSettings
    \/ SaveCheckSettles
    \/ ToggleTheme

SpecSession == InitSession /\ [][NextSession]_vars

\* ------------------------------------------------------------------------
\* Specification of the keyboard: the loaded page with a saved deck, the
\* tabs, the settings modal, and key presses inside and outside a field.
\* ------------------------------------------------------------------------

InitKeys ==
    /\ InitState
    /\ Loaded
    /\ storedFlashcards = Stored(JSONstringify(List(DeckOfLen(MaxDeck))))
    /\ input = [f \in Fields |-> <<>>]

NextKeys ==
    \/ LoadFlashcards
    \/ \E tabId \in Tabs : SwitchTab(tabId)
    \/ OpenSettings
    \/ \E key \in Keys, inField \in BOOLEAN : HandleKeyboardShortcuts(key, inField)

SpecKeys == InitKeys /\ [][NextKeys]_vars

\* ------------------------------------------------------------------------
\* Specification of the notifications on the loaded page.
\* ------------------------------------------------------------------------

NextNotify ==
    \/ ShowNotification
    \/ \E i \in Slots : Dismiss(i)
    \/ \E i \in Slots : DurationFires(i)
    \/ \E i \in Slots : RemoveFires(i)

SpecNotify == InitSettings /\ [][NextNotify]_vars

\* The same when the event loop runs every timer that is due.
SpecNotifyFair ==
    /\ SpecNotify
    /\ \A i \in Slots : WF_vars(DurationFires(i)) /\ WF_vars(RemoveFires(i))

\* ------------------------------------------------------------------------
\* Properties
\* ------------------------------------------------------------------------

DeckLen == IF IsList(flashcards) THEN Len(flashcards.items) ELSE 0

IsReplacement ==
    \/ lastOp \in {Op("generateFlashcards", 1, "deck"),
                   Op("generateFlashcards", 1, "absent")}
    \/ lastOp = Op("loadFlashcards", 1, "call") /\ lastNotes = <<"success">>
    \/ lastOp = Op("clearFlashcards", 1, "call")
    \/ lastOp.op = "shuffleFlashcards" /\ DeckLen > 0

\* C2: right after a navigation on a non-empty deck and right after a deck
\* replacement (generation, load, confirmed clear, shuffle) the flipped
\* flag is false.
FlippedReset ==
    (IsReplacement \/ (lastOp.op = "navigateFlashcard" /\ DeckLen > 0))
        => ~isFlashcardFlipped

\* A navigation that started from a flipped card.
FlippedResetWitness ==
    /\ lastOp = Op("navigateFlashcard", 1, "call")
    /\ DeckLen > 0
    /\ runLen = 1 /\ runStart.flipped
    /\ ~isFlashcardFlipped

\* C3: len(D) calls of navigateFlashcard(+1) in a row bring the cursor back
\* to where it started.
NavigateCircular ==
    (/\ lastOp = Op("navigateFlashcard", 1, "call")
     /\ DeckLen >= 1
     /\ runLen = DeckLen)
        => currentFlashcardIndex = runStart.index

\* Three calls on a deck of three cards, started at the middle card.
NavigateCircularWitness ==
    /\ lastOp = Op("navigateFlashcard", 1, "call")
    /\ DeckLen = 3
    /\ runLen = 3
    /\ runStart.index = 1
    /\ currentFlashcardIndex = 1

\* C4: two calls of flipFlashcard in a row bring the flipped flag back to
\* its value before the first, and no call of it changes the deck or the
\* cursor.
FlipTwice ==
    [][/\ lastOp'.op = "flipFlashcard"
           => /\ flashcards' = flashcards
              /\ currentFlashcardIndex' = currentFlashcardIndex
       /\ (lastOp'.op = "flipFlashcard" /\ runLen' = 2)
           => isFlashcardFlipped' = runStart'.flipped]_vars

\* Two flips of a card that showed its answer.
FlipTwiceWitness ==
    /\ lastOp.op = "flipFlashcard"
    /\ runLen = 2
    /\ runStart.flipped
    /\ isFlashcardFlipped
    /\ DeckLen > 0

\* C5: flipFlashcard on an empty deck changes neither the flipped flag nor
\* the deck nor the cursor.
FlipEmptyNoOp ==
    [][(lastOp'.op = "flipFlashcard" /\ IsList(flashcards) /\ DeckLen = 0)
           => UNCHANGED deckVars]_vars

Count(s, x) == Cardinality({i \in DOMAIN s : s[i] = x})

IsPermutation(s, t) ==
    /\ Len(s) = Len(t)
    /\ \A i \in DOMAIN s : Count(s, s[i]) = Count(t, s[i])

\* C6: shuffleFlashcards leaves a permutation of the same cards, the cursor
\* at 0 and the flag false; on an empty deck it changes nothing and creates
\* no notification.
ShufflePermutes ==
    [][(lastOp'.op = "shuffleFlashcards" /\ IsList(flashcards))
           => IF DeckLen = 0
              THEN UNCHANGED deckVars /\ lastNotes' = <<>>
              ELSE /\ IsList(flashcards')
                   /\ IsPermutation(flashcards.items, flashcards'.items)
                   /\ currentFlashcardIndex' = 0
                   /\ ~isFlashcardFlipped']_vars

\* A shuffle that moved card 2 from the front of the deck 2, 1, 1 to its
\* middle.
ShufflePermutesWitness ==
    /\ lastOp.op = "shuffleFlashcards"
    /\ flashcards = List(<<Card(1), Card(2), Card(1)>>)
    /\ lastNotes = <<"success">>

SaveThenLoad ==
    /\ lastOp.op = "saveFlashcards"
    /\ ~lastThrew
    /\ lastNotes # <<"error">>
    /\ lastOp' = Op("loadFlashcards", 1, "call")

\* C7 as claimed: for every deck, the empty one included, and every
\* content of the storage key, saveFlashcards then loadFlashcards with
\* storage succeeding leaves the deck as it was.
SaveLoadRoundTripAnyDeck ==
    [][SaveThenLoad => flashcards' = flashcards]_vars

\* C7 as amended: for every non-empty deck and every content of the storage
\* key, a saveFlashcards that wrote the key followed by a loadFlashcards
\* that read it leaves the deck as it was, card for card.
SaveLoadRoundTrip ==
    [][(SaveThenLoad /\ DeckLen > 0)
           => flashcards' = flashcards]_vars

\* A shuffled deck of three cards, saved over another stored deck and
\* loaded back.
SaveLoadRoundTripWitness ==
    /\ lastOp = Op("loadFlashcards", 1, "call")
    /\ afterSave
    /\ lastNotes = <<"success">>
    /\ flashcards = List(<<Card(1), Card(1), Card(2)>>)

HandlerOf(field) ==
    CASE field = "topicInput" -> "generateExplanation"
      [] field = "notesInput" -> "summarizeNotes"
      [] field = "quizInput" -> "generateQuiz"
      [] field = "flashcardsInput" -> "generateFlashcards"

\* The step is the click segment of the handler of the field.
Submits(field) ==
    /\ lastOp'.op = HandlerOf(field)
    /\ lastOp'.phase = "call"

\* The requests the step issued.
Issued == BagToSet(inflight' (-) inflight)

\* C8: when the text of a field is over its limit, or is the limit-long
\* text a cut left, a submission leaves exactly limit characters in the
\* field and sends exactly limit characters.
TruncationExact ==
    [][\A f \in Fields :
         (Submits(f) /\ TextLen(input[f]) >= Limit(f))
             => /\ TextLen(input'[f]) = Limit(f)
                /\ Issued # {}
                /\ \A r \in Issued : TextLen(r.body) = Limit(f)]_vars

\* C9: a submission of text over the limit cuts the text, creates a warning
\* or info notification and issues the request in the same call.
OverLimitStillSubmits ==
    [][\A f \in Fields :
         (Submits(f) /\ TextLen(Trim(input[f])) > Limit(f))
             => /\ TextLen(input'[f]) <= Limit(f)
                /\ lastNotes' \in {<<"warning">>, <<"info">>}
                /\ Issued # {}]_vars

\* C10: a submission of an empty or whitespace-only text issues no request,
\* creates exactly one notification, of kind warning, and changes neither
\* the application state nor an output region.
EmptyInputRejected ==
    [][\A f \in Fields :
         (Submits(f) /\ Trim(input[f]) = <<>>)
             => /\ inflight' = inflight
                /\ lastNotes' = <<"warning">>
                /\ UNCHANGED <<deckVars, storedFlashcards, input, output>>]_vars

\* summarizeNotes called on whitespace while the explainer shows a result.
EmptyInputRejectedWitness ==
    /\ lastOp = Op("summarizeNotes", 0, "call")
    /\ lastNotes = <<"warning">>
    /\ input["notesInput"] = <<Run(TRUE, 1)>>
    /\ output["explainOutput"] = "result"
    /\ inflight = EmptyBag

\* ------------------------------------------------------------------------
\* Quiz without questions, deck generation and storage, failed requests
\* ------------------------------------------------------------------------

\* C11: when the quiz backend answers 2xx with no questions (an empty
\* list, or a body without the questions field) generateQuiz leaves the
\* empty-state panel in the quiz region, not the error panel, and creates
\* no error notification.
QuizWithoutQuestions ==
    [][(lastOp'.op = "generateQuiz" /\ lastOp'.phase \in {"empty", "absent"})
          => /\ output'["quizOutput"] = "emptyState"
             /\ \A i \in 1..Len(lastNotes') : lastNotes'[i] # "error"]_vars
\* C16: a successful generateFlashcards replaces the deck by the cards of
\* the response (by the empty deck when the body has no flashcards field)
\* and leaves the three storage keys as they were; the flashcards key
\* changes only in a saveFlashcards call on a non-empty deck.
GenerationPersistsNothing ==
    [][/\ lastOp' = Op("generateFlashcards", 1, "deck")
            => /\ IsList(flashcards') /\ flashcards'.items \in Decks
               /\ UNCHANGED <<storedFlashcards, storedSettings, storedTheme>>
       /\ lastOp' = Op("generateFlashcards", 1, "absent")
            => /\ flashcards' = EmptyDeck
               /\ UNCHANGED <<storedFlashcards, storedSettings, storedTheme>>
       /\ storedFlashcards' # storedFlashcards
            => /\ lastOp'.op = "saveFlashcards"
               /\ IsList(flashcards) /\ Len(flashcards.items) > 0]_vars

\* A generated deck of two cards replaces the deck in memory while the key
\* still holds the one card it held at page load.
GenerationPersistsNothingWitness ==
    /\ lastOp = Op("generateFlashcards", 1, "deck")
    /\ flashcards = List(DeckOfLen(2))
    /\ storedFlashcards = Stored(JSONstringify(List(<<Card(1)>>)))

Generators ==
    {"generateExplanation", "summarizeNotes", "generateQuiz", "generateFlashcards"}

\* C17: for each of the four generation calls, a request that ends by a
\* transport error or a status other than 2xx gives exactly one
\* notification, of kind error, the error panel in the output region of
\* the call when it has one, and a handler that returns without an
\* exception; no success notification is created.
FailedRequestPolicy ==
    [][(lastOp'.op \in Generators /\ lastOp'.phase = "fetch" /\ lastOp'.arg = 0)
          => /\ lastNotes' = <<"error">>
             /\ ~lastThrew'
             /\ RegionOf(lastOp'.op) # ""
                  => output'[RegionOf(lastOp'.op)] = "error"]_vars

\* The quiz request failed while its region showed the loading panel.
FailedRequestPolicyWitness ==
    /\ lastOp = Op("generateQuiz", 0, "fetch")
    /\ output["quizOutput"] = "error"
    /\ lastNotes = <<"error">>
    /\ inflight = EmptyBag

\* ------------------------------------------------------------------------
\* Page load
\* ------------------------------------------------------------------------

HiddenOnceWhenReady ==
    /\ trace.hides <= 1
    /\ Len(trace.readyNotes) <= 1
    /\ (startup.pc = "ready") = ~elements.loadingShown
    /\ (trace.readyNotes # <<>>) => ~elements.loadingShown
    /\ ~elements.loadingShown
         => /\ startup.backendOk = "ok"
            /\ startup.ollamaOk # "pending"
            /\ trace.hides = 1
            /\ trace.readyNotes =
                  <<IF startup.ollamaOk = "ok" THEN "success" ELSE "warning">>

\* C13: when the backend health check has succeeded during startup, then
\* whatever the inference-engine check returns the startup sequence
\* eventually reaches Ready; the loading screen is hidden exactly once and
\* only after both checks have completed, and exactly one readiness
\* notification is created, of kind success when the inference check
\* succeeded and of kind warning otherwise.
StartupReachesReady ==
    /\ []HiddenOnceWhenReady
    /\ (startup.backendOk = "ok") ~> (startup.pc = "ready")

\* Ready after an inference-engine check that failed.
StartupReachesReadyWitness ==
    /\ startup.pc = "ready"
    /\ startup.backendOk = "ok"
    /\ startup.ollamaOk = "failed"
    /\ ~elements.loadingShown
    /\ trace.hides = 1
    /\ trace.readyNotes = <<"warning">>
\* C14: checkBackend returns true and sets connectionStatus to connected
\* whenever the health request got a 2xx response, returns false and sets
\* disconnected on a network error or another status; the boolean returned
\* is true exactly when connectionStatus is connected afterwards, and no
\* exception escapes.  (The json segment runs exactly for the 2xx
\* responses; backendOk is the value initializeApp received.)
CheckBackendContract ==
    [][(lastOp'.op = "checkBackend" /\ startup'.backendOk # "pending")
          => /\ lastOp'.phase = "json"
                  => /\ startup'.backendOk = "ok"
                     /\ state'.connectionStatus = "connected"
             /\ lastOp'.phase = "fetch"
                  => /\ startup'.backendOk = "failed"
                     /\ state'.connectionStatus = "disconnected"
             /\ (startup'.backendOk = "ok")
                  = (state'.connectionStatus = "connected")
             /\ ~lastThrew']_vars
\* C15: the settling of a checkOllama request, whatever its outcome and
\* whether initializeApp or saveSettings made the call, leaves
\* connectionStatus and every other field of this.state unchanged.
CheckOllamaFrame ==
    [][lastOp'.op = "checkOllama" => UNCHANGED <<state, deckVars>>]_vars

\* The check of saveSettings fails after the check of startup succeeded.
CheckOllamaFrameWitness ==
    /\ lastOp = Op("checkOllama", 0, "saveSettings")
    /\ startup.ollamaOk = "ok"
    /\ state.connectionStatus = "connected"
\* ------------------------------------------------------------------------
\* Settings and theme
\* ------------------------------------------------------------------------

\* A well-formed record: an object whose theme, model and apiUrl are
\* strings.
WellFormedSettings(p) ==
    /\ p.ok
    /\ ~p.null
    /\ \A k \in SettingKeys : p.obj[k].kind = "string"

\* loadSettings left the four fields at the constructor's values, created
\* no notification and returned to init().
DefaultsStand ==
    /\ state'.theme = DefaultState.theme
    /\ state'.model = DefaultState.model
    /\ state'.apiUrl = DefaultState.apiUrl
    /\ state'.isPhi3 = DefaultState.isPhi3
    /\ lastNotes' = <<>>
    /\ ~lastThrew'
    /\ startup'.pc = "setupTheme"

\* C18 as claimed: when loadSettings runs at startup and the settings key
\* is absent or holds malformed data (a text that does not parse, or parses to a
\* value that is no well-formed {theme, model, apiUrl} record), the fields
\* theme, model, apiUrl and isPhi3 keep their defaults, no notification is
\* created and startup continues.
MalformedSettingsKeepDefaults ==
    [][(/\ lastOp'.op = "loadSettings"
        /\ \/ ~storedSettings.has
           \/ ~WellFormedSettings(ParseSettings(storedSettings.text)))
          => DefaultsStand]_vars

\* C18 as amended: when loadSettings runs at startup and the settings key
\* is absent or holds a text that does not parse, or that parses to null or
\* to a value carrying none of the three fields, the fields theme, model,
\* apiUrl and isPhi3 keep their defaults, no notification is created and
\* startup continues.
EmptySettingsKeepDefaults ==
    [][(/\ lastOp'.op = "loadSettings"
        /\ \/ ~storedSettings.has
           \/ ~ParseSettings(storedSettings.text).ok
           \/ ParseSettings(storedSettings.text).null
           \/ \A k \in SettingKeys :
                 ~Truthy(ParseSettings(storedSettings.text).obj[k]))
          => DefaultsStand]_vars

\* The key held null: reading settings.theme threw inside the try block.
EmptySettingsKeepDefaultsWitness ==
    /\ lastOp = Op("loadSettings", 0, "theme")
    /\ storedSettings = Stored(<<NullTok>>)
    /\ state = DefaultState
    /\ startup.pc = "setupTheme"
\* C19: a saveSettings whose storage write fails creates exactly one
\* notification, of kind error, keeps state.model, state.apiUrl and isPhi3
\* at their previous values, leaves the settings modal open and issues no
\* inference-engine check; a saveSettings whose write succeeds leaves
\* state.model and state.apiUrl equal to the values written to the key.
SaveSettingsOutcome ==
    [][lastOp'.op = "saveSettings"
          => IF lastOp'.arg = 0
             THEN /\ lastNotes' = <<"error">>
                  /\ state'.model = state.model
                  /\ state'.apiUrl = state.apiUrl
                  /\ state'.isPhi3 = state.isPhi3
                  /\ elements'.settingsActive = elements.settingsActive
                  /\ checks' = checks
                  /\ UNCHANGED storedSettings
             ELSE LET written == ParseSettings(storedSettings'.text)
                  IN /\ written.ok /\ ~written.null
                     /\ state'.model = written.obj["model"]
                     /\ state'.apiUrl = written.obj["apiUrl"]]_vars

\* The write failed with another model picked in the open modal.
SaveSettingsOutcomeWitness ==
    /\ lastOp = Op("saveSettings", 0, "call")
    /\ lastNotes = <<"error">>
    /\ elements.settingsActive
    /\ elements.modelSelect = Llama3
    /\ state.model = Phi3Mini
    /\ state.isPhi3
    /\ checks = 0
ThemeHandlers == {"toggleTheme", "selectThemeOption"}

PersistenceOps ==
    {"loadSettings", "saveSettings", "loadFlashcards", "saveFlashcards",
     "setupTheme", "toggleTheme", "selectThemeOption"}

\* C21: no persistence operation (loadSettings, saveSettings,
\* loadFlashcards, saveFlashcards, setTheme through its handlers,
\* setupTheme) lets an exception of a storage read, write or parse leave
\* it, and a storage failure during startup never keeps init() from going
\* on to the backend health check.
PersistenceNeverFatal ==
    [][lastOp'.op \in PersistenceOps
          => /\ ~lastThrew'
             /\ startup'.pc # "crashed"]_vars

\* ------------------------------------------------------------------------
\* Notifications
\* ------------------------------------------------------------------------

\* C22: every notification showNotification put on the page leaves it,
\* whether its duration timer or a click on its close button comes first;
\* a click or a timer of one notification changes no other notification,
\* and none of them ends by an exception, also when it comes after the
\* node has left.
NotificationLifetime ==
    /\ [][lastOp'.op = "showNotification"
            => /\ ~lastThrew'
               /\ \A j \in Slots :
                    j # lastOp'.arg => notifications'[j] = notifications[j]]_vars
    /\ \A i \in Slots :
         notifications[i].attached ~> ~notifications[i].attached

\* A notification was dismissed and removed, its duration timer has fired
\* since, and another notification is still on the page.
NotificationLifetimeWitness ==
    /\ lastOp.op = "showNotification"
    /\ lastOp.phase = "timeout"
    /\ notifications[lastOp.arg] = NoNode
    /\ \E j \in Slots : notifications[j].attached

\* ------------------------------------------------------------------------
\* Racing requests
\* ------------------------------------------------------------------------

\* The step is the continuation of a request after await response.json().
Responds == lastOp'.op \in Generators /\ lastOp'.phase \notin {"call", "fetch"}

\* C23: no request in flight is cancelled or ranked: a click that issues
\* a request leaves every earlier request in flight, a settling promise
\* takes its own request only, and the response of a request that the
\* response of a later request has overtaken is written to the region or
\* to the deck like any other.
StaleResponseShown ==
    [][/\ (lastOp'.op \in Generators /\ lastOp'.phase = "call"
            /\ lastOp'.arg = 1)
          => InFlight' = InFlight + 1
       /\ (lastOp'.op \in Generators /\ lastOp'.phase = "fetch")
          => InFlight' = InFlight - (1 - lastOp'.arg)
       /\ Responds => InFlight' = InFlight - 1
       /\ (Responds /\ lastStale')
          => /\ lastOp'.arg = 1
             /\ lastOp'.op = "generateExplanation"
                  => output'["explainOutput"] = "result"
             /\ lastOp'.op = "generateFlashcards"
                  => /\ flashcards' \in {List(d) : d \in RaceDecks} \cup {EmptyDeck}
                     /\ currentFlashcardIndex' = 0]_vars

\* Two explanation requests were issued one after the other, the response
\* of the second arrived, and the region now shows the response of the
\* first.
StaleResponseShownWitness ==
    /\ lastOp = Op("generateExplanation", 1, "wellformed")
    /\ lastStale
    /\ output["explainOutput"] = "result"
    /\ inflight = EmptyBag

\* ------------------------------------------------------------------------
\* Keyboard shortcuts
\* ------------------------------------------------------------------------

\* The step is a keydown event with one of the keys.
KeyDown(keys) ==
    /\ lastOp'.op = "handleKeyboardShortcuts"
    /\ lastOp'.phase \in keys

\* C24: a keydown whose target is a textarea, an input or a select changes
\* no field of the application state; a keydown elsewhere with ArrowLeft,
\* ArrowRight or Space leaves the cursor and the flipped flag as they are
\* in every tab but flashcards, and in the flashcards tab navigates a deck
\* with cards, and flips the card, as the buttons do.
ShortcutsScoped ==
    [][/\ (KeyDown(Keys) /\ lastOp'.arg = 0)
          => UNCHANGED <<state, deckVars>>
       /\ (KeyDown({"ArrowLeft", "ArrowRight", " "})
            /\ state.currentTab # "flashcards")
          => UNCHANGED <<state, deckVars>>
       /\ (KeyDown({" "}) /\ lastOp'.arg = 1 /\ state.currentTab = "flashcards")
          => /\ isFlashcardFlipped' = ~isFlashcardFlipped
             /\ UNCHANGED <<flashcards, currentFlashcardIndex>>
       /\ (KeyDown({"ArrowLeft", "ArrowRight"}) /\ lastOp'.arg = 1
            /\ state.currentTab = "flashcards" /\ IsList(flashcards)
            /\ Len(flashcards.items) > 0)
          => /\ currentFlashcardIndex' =
                  (currentFlashcardIndex
                     + (IF lastOp'.phase = "ArrowLeft" THEN -1 ELSE 1)
                     + Len(flashcards.items)) % Len(flashcards.items)
             /\ UNCHANGED flashcards]_vars

\* Space was pressed outside a field in another tab than flashcards while
\* the deck is loaded, the cursor is past the first card and the card is
\* flipped.
ShortcutsScopedWitness ==
    /\ lastOp = Op("handleKeyboardShortcuts", 1, " ")
    /\ state.currentTab # "flashcards"
    /\ IsList(flashcards)
    /\ Len(flashcards.items) = MaxDeck
    /\ currentFlashcardIndex > 0
    /\ isFlashcardFlipped

\* ------------------------------------------------------------------------
\* Loading the deck, navigation, and deck replacement
\* ------------------------------------------------------------------------

\* The text parses to a list of cards.
DeckText(text) ==
    LET p == JSONparse(text)
    IN /\ p.ok
       /\ IsList(p.value)
       /\ \A i \in 1..Len(p.value.items) : IsCard(p.value.items[i])

\* C25: loadFlashcards with nothing under the storage key creates exactly
\* one notification, of kind info, and leaves deck, cursor and flag as
\* they are; with a saved text that does not parse, or parses to something
\* else than a list of cards, it creates an error notification and leaves
\* deck, cursor and flag as they are.
LoadFlashcardsPolicy ==
    [][(lastOp' = Op("loadFlashcards", 1, "call"))
          => /\ (~storedFlashcards.has \/ storedFlashcards.text = <<>>)
                  => /\ lastNotes' = <<"info">>
                     /\ UNCHANGED deckVars
             /\ (storedFlashcards.has /\ storedFlashcards.text # <<>>
                 /\ ~DeckText(storedFlashcards.text))
                  => /\ lastNotes' = <<"error">>
                     /\ UNCHANGED deckVars]_vars

\* C26: on a deck of len >= 1 cards with the cursor in 0..len-1,
\* navigateFlashcard(d) for d = 1 or -1 sets the cursor to
\* (index + d + len) mod len and leaves the deck as it is; on an empty
\* deck it changes nothing, the flipped flag included.
NavigateModular ==
    [][(lastOp'.op = "navigateFlashcard" /\ IsList(flashcards))
          => IF Len(flashcards.items) = 0
             THEN UNCHANGED <<deckVars, storedFlashcards, input, output,
                              inflight, sessVars>>
             ELSE (currentFlashcardIndex \in 0..(Len(flashcards.items) - 1))
                    => /\ currentFlashcardIndex' =
                            (currentFlashcardIndex + lastOp'.arg
                               + Len(flashcards.items)) % Len(flashcards.items)
                       /\ UNCHANGED flashcards]_vars

\* navigateFlashcard(-1) has gone from the first card of a full deck to
\* its last card.
NavigateModularWitness ==
    /\ lastOp = Op("navigateFlashcard", -1, "call")
    /\ DeckLen = MaxDeck
    /\ currentFlashcardIndex = DeckLen - 1
    /\ ~lastThrew

FailedGenerationKeepsDeck ==
    [][(lastOp'.op = "generateFlashcards" /\ lastOp'.arg = 0
        /\ lastOp'.phase \in {"fetch", "unparsable"})
          => UNCHANGED deckVars]_vars

\* A request failed while the user was on the last card of a full deck,
\* flipped.
FailedGenerationKeepsDeckWitness ==
    /\ lastOp.op = "generateFlashcards"
    /\ lastOp.arg = 0
    /\ lastOp.phase \in {"fetch", "unparsable"}
    /\ lastNotes = <<"error">>
    /\ DeckLen = MaxDeck
    /\ currentFlashcardIndex = MaxDeck - 1
    /\ isFlashcardFlipped

\* ------------------------------------------------------------------------
\* Connection status and addresses
\* ------------------------------------------------------------------------

\* C29: connectionStatus is disconnected or connected in every state,
\* never connecting, and once the backend check of the page load has
\* completed no step changes it: no explanation request, settings save or
\* inference-engine check, whether it succeeds or fails.
ConnectionStatusSettled ==
    /\ [](state.connectionStatus \in {"disconnected", "connected"})
    /\ [][startup.backendOk # "pending"
            => state'.connectionStatus = state.connectionStatus]_vars

\* An explanation request failed on a page whose backend check had
\* passed, and the status is still connected.
ConnectionStatusSettledWitness ==
    /\ lastOp.op = "generateExplanation"
    /\ lastOp.arg = 0
    /\ lastNotes = <<"error">>
    /\ startup.backendOk = "ok"
    /\ state.connectionStatus = "connected"

\* C30: backendUrl has the constructor's value in every state and every
\* generation request in flight was sent to it; apiUrl and model change
\* in loadSettings and in a saveSettings whose write succeeded, and in no
\* other step.
BackendUrlFixed ==
    /\ [](/\ state.backendUrl = LocalBackend
          /\ \A r \in BagToSet(inflight) : r.url = LocalBackend)
    /\ [][(state'.model # state.model \/ state'.apiUrl # state.apiUrl)
            => \/ lastOp'.op = "loadSettings"
               \/ lastOp' = Op("saveSettings", 1, "call")]_vars

\* A saveSettings has set another model and another inference-engine
\* address while an explanation request was in flight.
BackendUrlFixedWitness ==
    /\ lastOp = Op("saveSettings", 1, "call")
    /\ state.model = Llama3
    /\ state.apiUrl = RemoteOllama
    /\ InFlight = 1
    /\ state.backendUrl = LocalBackend
====
